---- MODULE Spec2Model ----
(***************************************************************************)
(* The two browser verification scripts of the repository:                 *)
(*   verify_demo.py               run()                                    *)
(*   verification/verify_dashboard.py   verify(page) and its entry point   *)
(* One behaviour is one invocation of one script.  The browser-automation  *)
(* library is the environment: every call into it either returns or        *)
(* raises, and the value it returns is chosen by the environment.          *)
(***************************************************************************)
EXTENDS Integers, Sequences, FiniteSets, TLC

VARIABLES
    script,        \* which script is being run
    pc,            \* position in the script
    playwright,    \* the sync_playwright() context: "none", "running", "stopped"
    browser,       \* the browser handle: "none", "open", "closed"
    page,          \* TRUE once browser.new_page() returned
    video_source,  \* verify_demo's local variable (an Optional string)
    exc,           \* the exception in flight ("none" when there is none)
    stdout,        \* what print() wrote, in order
    calls,         \* the library / os calls made, in order, with their outcome
    files,         \* screenshot files written
    dirs,          \* directories os.makedirs ensured
    exit_code      \* -1 while running, then the process exit code

vars == <<script, pc, playwright, browser, page, video_source, exc, stdout,
          calls, files, dirs, exit_code>>

(***************************************************************************)
(* Strings are sequences of characters, so that Python's `in` on strings   *)
(* is a real substring search.                                             *)
(***************************************************************************)
EXPECTED == <<"a","s","s","e","t","s","/","d","e","m","o",".","m","p","4">>

WRONG == <<"a","s","s","e","t","s","/","w","r","o","n","g",".","m","p","4">>

MaxPad == 1

PadChars == {"/", "x"}

Pads == UNION {[1..n -> PadChars] : n \in 0..MaxPad}

Cores == {EXPECTED, WRONG, SubSeq(EXPECTED, 1, Len(EXPECTED) - 1), <<>>}

\* the src attribute values a page may carry
SrcValues == {p \o c \o s : p \in Pads, c \in Cores, s \in Pads}

None == [tag |-> "None"]

Str(s) == [tag |-> "str", val |-> s]

\* Python: sub in s  (both strings)
Contains(sub, s) ==
    \E i \in 0..(Len(s) - Len(sub)) : SubSeq(s, i + 1, i + Len(sub)) = sub

WaitTimeoutMs == 5000

\* moments (ms after the wait starts) at which the awaited element may appear;
\* a moment past the bound stands for "never within the bound"
AppearTimes == {0, WaitTimeoutMs - 1, WaitTimeoutMs + 1, 2 * WaitTimeoutMs}

\* what page.wait_for_selector may raise other than its timeout
WaitErrors == {"Error", "KeyboardInterrupt"}

DEMO == "verify_demo"

DASHBOARD == "verify_dashboard"

DemoScreenshotPath == "verification/demo_page.png"

DashScreenshotPath == "verification/dashboard_mobile_after_fix.png"

TimeoutMessage == "Timeout waiting for tips, taking screenshot anyway"

print(text, arg) == stdout' = Append(stdout, [text |-> text, arg |-> arg])

Call(name, result) == calls' = Append(calls, [name |-> name, result |-> result])

Init ==
    /\ script \in {DEMO, DASHBOARD}
    /\ pc = "start"
    /\ playwright = "none"
    /\ browser = "none"
    /\ page = FALSE
    /\ video_source = None
    /\ exc = "none"
    /\ stdout = <<>>
    /\ calls = <<>>
    /\ files = {}
    /\ dirs = {}
    /\ exit_code = -1

(***************************************************************************)
(* with sync_playwright() as p:   (both scripts)                           *)
(***************************************************************************)
SyncPlaywrightEnter ==
    /\ pc = "start"
    /\ playwright' = "running"
    /\ pc' = IF script = DEMO THEN "demo_launch" ELSE "dash_launch"
    /\ UNCHANGED <<script, browser, page, video_source, exc, stdout, calls,
                   files, dirs, exit_code>>

\* leaving the with block, normally or with an exception in flight; an
\* exception that leaves it is unhandled and the process exits non-zero
SyncPlaywrightExit ==
    /\ pc = "with_exit"
    /\ playwright' = "stopped"
    /\ exit_code' = IF exc = "none" THEN 0 ELSE 1
    /\ pc' = "done"
    /\ UNCHANGED <<script, browser, page, video_source, exc, stdout, calls,
                   files, dirs>>

(***************************************************************************)
(* verify_demo.py: run()                                                   *)
(***************************************************************************)
\* an exception raised inside run(): nothing catches it, it leaves the with block
DemoRaise(e) ==
    /\ exc' = e
    /\ pc' = "with_exit"

DemoLaunch ==
    /\ pc = "demo_launch"
    /\ \/ /\ Call("launch", "ok")
          /\ browser' = "open"
          /\ pc' = "demo_new_page"
          /\ UNCHANGED exc
       \/ /\ Call("launch", "raise")
          /\ DemoRaise("LaunchError")
          /\ UNCHANGED browser
    /\ UNCHANGED <<script, playwright, page, video_source, stdout, files, dirs,
                   exit_code>>

DemoNewPage ==
    /\ pc = "demo_new_page"
    /\ \/ /\ Call("new_page", "ok")
          /\ page' = TRUE
          /\ pc' = "demo_print_target"
          /\ UNCHANGED exc
       \/ /\ Call("new_page", "raise")
          /\ DemoRaise("PageError")
          /\ UNCHANGED page
    /\ UNCHANGED <<script, playwright, browser, video_source, stdout, files,
                   dirs, exit_code>>

DemoPrintTarget ==
    /\ pc = "demo_print_target"
    /\ print("Navigating to file://{cwd}/docs/demo.html", None)
    /\ pc' = "demo_goto"
    /\ UNCHANGED <<script, playwright, browser, page, video_source, exc, calls,
                   files, dirs, exit_code>>

DemoGoto ==
    /\ pc = "demo_goto"
    /\ \/ /\ Call("goto", "ok")
          /\ pc' = "demo_get_attribute"
          /\ UNCHANGED exc
       \/ /\ Call("goto", "raise")
          /\ DemoRaise("NavigationError")
    /\ UNCHANGED <<script, playwright, browser, page, video_source, stdout,
                   files, dirs, exit_code>>

\* page.locator("video source").get_attribute("src"): the attribute's value,
\* None when the element has no such attribute, a timeout error when no
\* element matches
DemoGetAttribute ==
    /\ pc = "demo_get_attribute"
    /\ \/ /\ \E v \in {Str(s) : s \in SrcValues} \cup {None} :
                video_source' = v
          /\ Call("get_attribute", "ok")
          /\ pc' = "demo_print_source"
          /\ UNCHANGED exc
       \/ /\ Call("get_attribute", "raise")
          /\ DemoRaise("TimeoutError")
          /\ UNCHANGED video_source
    /\ UNCHANGED <<script, playwright, browser, page, stdout, files, dirs,
                   exit_code>>

DemoPrintSource ==
    /\ pc = "demo_print_source"
    /\ print("Video source: ", video_source)
    /\ pc' = "demo_classify"
    /\ UNCHANGED <<script, playwright, browser, page, video_source, exc, calls,
                   files, dirs, exit_code>>

\* if "assets/demo.mp4" in video_source: ... else: ...
\* `in` with None on its right raises TypeError
DemoClassify ==
    /\ pc = "demo_classify"
    /\ IF video_source = None
         THEN /\ DemoRaise("TypeError")
              /\ UNCHANGED stdout
         ELSE /\ IF Contains(EXPECTED, video_source.val)
                   THEN print("SUCCESS: Video source is correct.", None)
                   ELSE print("FAILURE: Video source is incorrect.", None)
              /\ pc' = "demo_makedirs"
              /\ UNCHANGED exc
    /\ UNCHANGED <<script, playwright, browser, page, video_source, calls,
                   files, dirs, exit_code>>

\* variant: the directory creation left out
DemoMakedirsSkipped ==
    /\ pc = "demo_makedirs"
    /\ pc' = "demo_screenshot"
    /\ UNCHANGED <<script, playwright, browser, page, video_source, exc, stdout,
                   calls, files, dirs, exit_code>>

\* os.makedirs("verification", exist_ok=True)
DemoMakedirs ==
    /\ pc = "demo_makedirs"
    /\ \/ /\ Call("makedirs", "ok")
          /\ dirs' = dirs \cup {"verification"}
          /\ pc' = "demo_screenshot"
          /\ UNCHANGED exc
       \/ /\ Call("makedirs", "raise")
          /\ DemoRaise("OSError")
          /\ UNCHANGED dirs
    /\ UNCHANGED <<script, playwright, browser, page, video_source, stdout,
                   files, exit_code>>

DemoScreenshot ==
    /\ pc = "demo_screenshot"
    /\ \/ /\ Call("screenshot", "ok")
          /\ files' = files \cup {DemoScreenshotPath}
          /\ pc' = "demo_print_saved"
          /\ UNCHANGED exc
       \/ /\ Call("screenshot", "raise")
          /\ DemoRaise("ScreenshotError")
          /\ UNCHANGED files
    /\ UNCHANGED <<script, playwright, browser, page, video_source, stdout,
                   dirs, exit_code>>

DemoPrintSaved ==
    /\ pc = "demo_print_saved"
    /\ print("Screenshot saved to verification/demo_page.png", None)
    /\ pc' = "demo_close"
    /\ UNCHANGED <<script, playwright, browser, page, video_source, exc, calls,
                   files, dirs, exit_code>>

DemoClose ==
    /\ pc = "demo_close"
    /\ Call("close", "ok")
    /\ browser' = "closed"
    /\ pc' = "with_exit"
    /\ UNCHANGED <<script, playwright, page, video_source, exc, stdout, files,
                   dirs, exit_code>>

(***************************************************************************)
(* verification/verify_dashboard.py                                        *)
(***************************************************************************)
\* browser = p.chromium.launch(headless=True): outside the try block
DashLaunch ==
    /\ pc = "dash_launch"
    /\ \/ /\ Call("launch", "ok")
          /\ browser' = "open"
          /\ pc' = "dash_new_page"
          /\ UNCHANGED exc
       \/ /\ Call("launch", "raise")
          /\ exc' = "LaunchError"
          /\ pc' = "with_exit"
          /\ UNCHANGED browser
    /\ UNCHANGED <<script, playwright, page, video_source, stdout, files, dirs,
                   exit_code>>

\* page = browser.new_page(): still outside the try block
DashNewPage ==
    /\ pc = "dash_new_page"
    /\ \/ /\ Call("new_page", "ok")
          /\ page' = TRUE
          /\ pc' = "dash_goto"
          /\ UNCHANGED exc
       \/ /\ Call("new_page", "raise")
          /\ exc' = "PageError"
          /\ pc' = "with_exit"
          /\ UNCHANGED page
    /\ UNCHANGED <<script, playwright, browser, video_source, stdout, files,
                   dirs, exit_code>>

\* an exception that leaves verify(): the entry point's finally clause runs
DashRaise(e) ==
    /\ exc' = e
    /\ pc' = "dash_finally"

\* variant: a failed navigation is tried again
DashGotoRetrying ==
    /\ pc = "dash_goto"
    /\ \/ /\ Call("goto", "ok")
          /\ pc' = "dash_wait"
       \/ /\ Call("goto", "raise")
          /\ pc' = "dash_goto"
    /\ UNCHANGED <<script, playwright, browser, page, video_source, exc, stdout,
                   files, dirs, exit_code>>

\* verify(): page.goto("http://localhost:3000/mobile")
DashGoto ==
    /\ pc = "dash_goto"
    /\ \/ /\ Call("goto", "ok")
          /\ pc' = "dash_wait"
          /\ UNCHANGED exc
       \/ /\ Call("goto", "raise")
          /\ DashRaise("NavigationError")
    /\ UNCHANGED <<script, playwright, browser, page, video_source, stdout,
                   files, dirs, exit_code>>

\* variant: `except Exception:`, which lets a KeyboardInterrupt through
DashWaitHandlerExceptException(e) ==
    IF e = "KeyboardInterrupt"
      THEN DashRaise(e)
      ELSE /\ pc' = "dash_except"
           /\ UNCHANGED exc

\* the handler of the try around the wait: a bare except catches everything
DashWaitHandler(e) ==
    /\ pc' = "dash_except"
    /\ UNCHANGED exc

\* try: page.wait_for_selector(".t-pending", timeout=5000)
DashWait ==
    /\ pc = "dash_wait"
    /\ \/ \E t \in AppearTimes :
            IF t < WaitTimeoutMs
              THEN /\ Call("wait_for_selector", "ok")
                   /\ pc' = "dash_screenshot"
                   /\ UNCHANGED exc
              ELSE /\ Call("wait_for_selector", "TimeoutError")
                   /\ DashWaitHandler("TimeoutError")
       \/ \E e \in WaitErrors :
            /\ Call("wait_for_selector", e)
            /\ DashWaitHandler(e)
    /\ UNCHANGED <<script, playwright, browser, page, video_source, stdout,
                   files, dirs, exit_code>>

\* variant: `except: pass`, the diagnostic left out
DashExceptPass ==
    /\ pc = "dash_except"
    /\ pc' = "dash_screenshot"
    /\ UNCHANGED <<script, playwright, browser, page, video_source, exc, stdout,
                   calls, files, dirs, exit_code>>

\* except: print("Timeout waiting for tips, taking screenshot anyway")
DashExceptPrint ==
    /\ pc = "dash_except"
    /\ print(TimeoutMessage, None)
    /\ pc' = "dash_screenshot"
    /\ UNCHANGED <<script, playwright, browser, page, video_source, exc, calls,
                   files, dirs, exit_code>>

\* page.screenshot(path="verification/dashboard_mobile_after_fix.png"), then
\* verify() returns
DashScreenshot ==
    /\ pc = "dash_screenshot"
    /\ \/ /\ Call("screenshot", "ok")
          /\ files' = files \cup {DashScreenshotPath}
          /\ pc' = "dash_finally"
          /\ UNCHANGED exc
       \/ /\ Call("screenshot", "raise")
          /\ DashRaise("ScreenshotError")
          /\ UNCHANGED files
    /\ UNCHANGED <<script, playwright, browser, page, video_source, stdout,
                   dirs, exit_code>>

\* finally: browser.close(); an exception in flight goes on after it
DashFinallyClose ==
    /\ pc = "dash_finally"
    /\ Call("close", "ok")
    /\ browser' = "closed"
    /\ pc' = "with_exit"
    /\ UNCHANGED <<script, playwright, page, video_source, exc, stdout, files,
                   dirs, exit_code>>

Next ==
    \/ SyncPlaywrightEnter
    \/ SyncPlaywrightExit
    \/ DemoLaunch
    \/ DemoNewPage
    \/ DemoPrintTarget
    \/ DemoGoto
    \/ DemoGetAttribute
    \/ DemoPrintSource
    \/ DemoClassify
    \/ DemoMakedirs
    \/ DemoScreenshot
    \/ DemoPrintSaved
    \/ DemoClose
    \/ DashLaunch
    \/ DashNewPage
    \/ DashGoto
    \/ DashWait
    \/ DashExceptPrint
    \/ DashScreenshot
    \/ DashFinallyClose

Spec == Init /\ [][Next]_vars

(***************************************************************************)
(* Vocabulary of the properties                                            *)
(***************************************************************************)
Did(name) == \E i \in 1..Len(calls) : calls[i].name = name

DidWith(name, result) ==
    \E i \in 1..Len(calls) : calls[i] = [name |-> name, result |-> result]

Count(name) == Cardinality({i \in 1..Len(calls) : calls[i].name = name})

Printed(text) == \E i \in 1..Len(stdout) : stdout[i].text = text

Ended == pc = "done"

SuccessMessage == "SUCCESS: Video source is correct."

FailureMessage == "FAILURE: Video source is incorrect."

\* the call that follows the i-th call is the screenshot
ScreenshotFollows(i) == i < Len(calls) /\ calls[i + 1].name = "screenshot"

PageOps == {"goto", "wait_for_selector", "get_attribute", "screenshot"}

\* the place of each call in the acquire, act, release order
Rank(name) ==
    CASE name = "launch" -> 1
      [] name = "new_page" -> 2
      [] name = "goto" -> 3
      [] name \in {"wait_for_selector", "get_attribute"} -> 4
      [] name = "makedirs" -> 5
      [] name = "screenshot" -> 6
      [] name = "close" -> 7

(***************************************************************************)
(* C1: once the browser was launched and a page opened, the browser is     *)
(* closed exactly once by the time the invocation ends, on every exit      *)
(* path, and is never closed twice.                                        *)
(***************************************************************************)
C1_ClosedExactlyOnce ==
    /\ Count("close") <= 1
    /\ (Ended /\ DidWith("launch", "ok") /\ page)
          => (Count("close") = 1 /\ browser = "closed")

(***************************************************************************)
(* C2: when navigation fails, in either script, the navigation error       *)
(* reaches the caller, no screenshot is written and the browser is closed. *)
(***************************************************************************)
C2_NavigationFailure ==
    (Ended /\ DidWith("goto", "raise"))
        => /\ exc = "NavigationError"
           /\ exit_code = 1
           /\ ~Did("screenshot")
           /\ files = {}
           /\ browser = "closed"

(***************************************************************************)
(* C3: in every invocation where the browser opened and the target loaded, *)
(* the screenshot step has been executed by the time the invocation ends,  *)
(* whatever the readiness condition gave (runs in which the directory      *)
(* creation itself failed are left aside).                                 *)
(***************************************************************************)
C3_ScreenshotAlwaysTaken ==
    (Ended /\ DidWith("launch", "ok") /\ DidWith("goto", "ok")
           /\ ~DidWith("makedirs", "raise"))
        => Did("screenshot")

(***************************************************************************)
(* C5: in verify_demo, for every result of reading the src attribute the   *)
(* run is classified SUCCESS exactly when the value contains               *)
(* "assets/demo.mp4" and FAILURE otherwise, and the check raises nothing.  *)
(***************************************************************************)
C5_ClassificationTotal ==
    (script = DEMO /\ Ended /\ Did("get_attribute"))
        => LET good == /\ DidWith("get_attribute", "ok")
                       /\ video_source # None
                       /\ Contains(EXPECTED, video_source.val)
           IN  /\ Printed(SuccessMessage) <=> good
               /\ Printed(FailureMessage) <=> ~good
               /\ exc \notin {"TypeError", "TimeoutError"}

(***************************************************************************)
(* C6: after a successful navigation, a failing readiness wait, an         *)
(* attribute read that fails or returns nothing, and an attribute mismatch *)
(* are all caught: none of their errors leaves the browser block, and the  *)
(* screenshot step still runs (runs in which the directory creation itself *)
(* failed are left aside).                                                 *)
(***************************************************************************)
C6_OnlyLaunchAndNavigationEscape ==
    (Ended /\ DidWith("goto", "ok") /\ ~DidWith("makedirs", "raise"))
        => /\ exc \notin {"TypeError", "TimeoutError"} \cup WaitErrors
           /\ Did("screenshot")

(***************************************************************************)
(* C7: a run whose launch and navigation succeeded ends normally (exit     *)
(* code 0), also when verify_demo printed FAILURE, and after FAILURE the   *)
(* directory creation, the screenshot and the close follow as after        *)
(* SUCCESS (runs in which the directory creation or the screenshot itself  *)
(* failed are left aside).                                                 *)
(***************************************************************************)
C7_NormalExitAfterNavigation ==
    (Ended /\ DidWith("launch", "ok") /\ DidWith("goto", "ok")
           /\ ~DidWith("makedirs", "raise") /\ ~DidWith("screenshot", "raise"))
        => /\ exit_code = 0
           /\ exc = "none"
           /\ (Printed(FailureMessage) \/ Printed(SuccessMessage))
                 => (Did("makedirs") /\ Did("screenshot") /\ Did("close"))

C8_DirectoryEnsuredInBothScripts ==
    \A i \in 1..Len(calls) :
        calls[i].name = "screenshot"
            => \E j \in 1..(i - 1) : calls[j].name = "makedirs"

(***************************************************************************)
(* C8 (amended): in verify_demo every screenshot call comes after a        *)
(* successful os.makedirs of the containing directory; verify_dashboard    *)
(* makes no directory-creation call at all and hands the path straight to  *)
(* the screenshot call.                                                    *)
(***************************************************************************)
C8_DirectoryEnsuredInDemoOnly ==
    /\ script = DEMO =>
          \A i \in 1..Len(calls) :
              calls[i].name = "screenshot"
                  => /\ \E j \in 1..(i - 1) :
                           calls[j] = [name |-> "makedirs", result |-> "ok"]
                     /\ "verification" \in dirs
    /\ script = DASHBOARD => (~Did("makedirs") /\ dirs = {})

C8_Witness ==
    /\ script = DEMO
    /\ DidWith("screenshot", "ok")
    /\ DemoScreenshotPath \in files

(***************************************************************************)
(* C9: one linear acquire, act, release flow without retries: launch,      *)
(* new page, navigation, readiness check, screenshot and close happen at   *)
(* most once each and only in that order; a screenshot is taken only after *)
(* a successful navigation; no page operation follows the close.           *)
(***************************************************************************)
C9_LinearFlow ==
    /\ \A i, j \in 1..Len(calls) :
          i < j => Rank(calls[i].name) < Rank(calls[j].name)
    /\ \A i \in 1..Len(calls) :
          calls[i].name = "screenshot"
              => \E j \in 1..(i - 1) :
                    calls[j] = [name |-> "goto", result |-> "ok"]
    /\ \A i, j \in 1..Len(calls) :
          (calls[i].name = "close" /\ i < j) => calls[j].name \notin PageOps
    /\ (browser = "closed") <=> Did("close")
    /\ Did("goto") => DidWith("launch", "ok")

C9_Witness ==
    /\ Ended
    /\ DidWith("goto", "ok")
    /\ DidWith("screenshot", "ok")
    /\ Did("close")

(***************************************************************************)
(* C10: in verify_dashboard the readiness wait swallows every failure, not *)
(* only a timeout: whatever the wait raised, it never becomes the          *)
(* exception in flight, the one timeout diagnostic is printed, and the     *)
(* screenshot step is attempted next.                                      *)
(***************************************************************************)
C10_WaitSwallowsEverything ==
    \A e \in {"TimeoutError"} \cup WaitErrors :
        (script = DASHBOARD /\ DidWith("wait_for_selector", e))
            => /\ exc \notin {"TimeoutError"} \cup WaitErrors
               /\ \/ pc = "dash_except"
                  \/ /\ stdout = <<[text |-> TimeoutMessage, arg |-> None]>>
                     /\ pc = "dash_screenshot" \/ Did("screenshot")
               /\ Ended => Did("screenshot")

C10_Witness ==
    /\ script = DASHBOARD
    /\ DidWith("wait_for_selector", "KeyboardInterrupt")
    /\ Did("screenshot")
    /\ Ended

====
